---------------------------- MODULE Spec2Model ----------------------------
(***************************************************************************)
(* Voice-chat front ends of the AI Companion prototype.                    *)
(*                                                                         *)
(* The modular SSE edition (code/static/stt.js, tts.js and the SSE part of  *)
(* code/static/script.js, lines 153-339) is checked in six environments,   *)
(* which differ in the inputs they deliver and in nothing else:            *)
(*   Spec         speech: every form of result event and of /chat outcome  *)
(*   SpecPlay     playback: audio chunks on the stream, barge-in           *)
(*   SpecSession  sessions: /chat responses that carry session ids         *)
(*   SpecSend     sending: results, silence timers and /chat outcomes only *)
(*   SpecLive     speech under the scheduling of the browser (fairness)    *)
(*   SpecStream   sessions with the text messages of the SSE stream        *)
(*                                                                         *)
(* Three more programs of the repository are modelled beside it:           *)
(*   SpecGen   the second edition of STT in unnamed/part_002 (lines         *)
(*             138-369), which generates its session id itself             *)
(*   SpecHttp  the HTTP edition of code/static/script.js (lines 341-653),   *)
(*             with its conversation memory                                *)
(*   SpecWs    the WebSocket front end of unnamed/part_001, with its        *)
(*             speech debounce and silence detection for the DONE signal   *)
(*                                                                         *)
(* Handlers are operators from a state record to a state record, so that a *)
(* handler that calls another one (onresult -> stopAIAudio -> handleSpeech *)
(* -> startSilenceTimer) is the composition of the operators.  An action   *)
(* applies one handler to the current state.                               *)
(*                                                                         *)
(* Strings are sequences of one-character strings.  Time is kept relative: *)
(* every pending timer carries the milliseconds it still has to wait and   *)
(* Tick lets TICK_MS pass.  A timer that is due fires before time passes.  *)
(***************************************************************************)
EXTENDS Integers, Sequences, FiniteSets

\* ------------------------------------------------------------------ bounds
\* audio chunks delivered over SSE in one run of SpecPlay
MaxChunks == 3
\* recognition result events delivered in one run of SpecPlay
MaxPlayResults == 2
\* recognition result events delivered in one run of Spec
MaxResults == 3
\* recognition result events delivered in one run of SpecSession
MaxSessionResults == 3
\* results in one recognition result event
MaxEventLen == 2
\* restart timers of recognition.onend pending at the same time
MaxRestartTimers == 1
\* granularity of the clock, in milliseconds
TICK_MS == 1500
\* recognition result events delivered in one run of SpecGen
MaxGenResults == 3
\* recognition result events delivered in one run of SpecHttp
MaxHttpResults == 12
\* recognizer objects of the HTTP edition that nothing refers to any more
MaxDetached == 1
\* sendToAI calls of the HTTP edition waiting for their response
MaxInflight == 2
\* length of currentText up to which the recognizer delivers a result
MaxTextLen == 1
\* recognition result events delivered in one run of SpecLive
MaxLiveResults == 3
\* clicks on Start and on Clear in one run of SpecHttp
MaxStarts == 1
MaxClears == 1
\* streams the user starts in one run of SpecWs
MaxStreams == 2
\* audio frames with speech processed in one run of SpecWs
MaxSpeechFrames == 4
\* debounce timers and DONE timers of part_001 pending at the same time
MaxWsTimers == 2
\* granularity of the clock of SpecWs, in milliseconds
WS_TICK_MS == 250

\* --------------------------------------------------------------- constants
SILENCE_TIMEOUT_MS == 3000
STT_RESTART_DELAY_MS == 100
\* CONFIG.STT_CONFIDENCE_THRESHOLD (0.7) and the confidences, in tenths
STT_CONFIDENCE_THRESHOLD == 7
\* script.js (HTTP edition)
MAX_MESSAGE_LENGTH == 1000
HISTORY_LIMIT == 20
\* part_001
DONE_DELAY_MS == 500
SPEECH_DEBOUNCE_MS == 50

\* ----------------------------------------------------------------- strings
Min(a, b) == IF a < b THEN a ELSE b
Max(a, b) == IF a > b THEN a ELSE b

\* String.prototype.trim: strip leading and trailing white space
RECURSIVE TrimLeft(_)
TrimLeft(str) ==
    IF str # <<>> /\ Head(str) = " " THEN TrimLeft(Tail(str)) ELSE str

RECURSIVE TrimRight(_)
TrimRight(str) ==
    IF str # <<>> /\ str[Len(str)] = " "
    THEN TrimRight(SubSeq(str, 1, Len(str) - 1))
    ELSE str

Trim(str) == TrimRight(TrimLeft(str))

Chars(str) == {str[i] : i \in 1..Len(str)}

\* ------------------------------------------------------------------- state
VARIABLES
    \* script.js (SSE edition) globals
    ttsEnabled,          \* let ttsEnabled = true
    isAISpeaking,        \* let isAISpeaking = false
    eventSource,         \* "null", or the session the EventSource streams
    currentSessionId,    \* "null" or a session id
    aiMessageBubble,     \* "null" or "bubble": the bubble of the AI message
    \* stt.js module state
    recognition,         \* "null" | "idle" | "started" | "stopping"
    isListening,
    currentText,
    messageBubble,       \* <<>> (null) or <<innerHTML text of the user bubble>>
    silenceTimer,        \* null, or the handle of a timer (pending or fired)
    \* tts.js module state
    frontendAudioQueue,
    isPlayingAudio,
    \* DOM
    status,              \* statusEl.textContent
    startBtnDisabled,
    stopBtnDisabled,
    \* browser: what the page has started and has not yet heard back from
    audios,              \* Audio elements with play() called: [id, st]
    orphanTimers,        \* pending silence timers no variable refers to
    restartTimers,       \* pending restart timers of recognition.onend
    inflight,            \* sendMessage calls waiting for their /chat response
    openStreams,         \* EventSource objects that are open
    sinceResult,         \* ms since handleSpeech last ran (saturating)
    \* history
    started,             \* ids of the chunks whose playback began, in order
    chatLog,             \* the /chat requests issued, in order
    lastSid,             \* session_id of the last processed response that had one
    nChunks,             \* chunks delivered so far
    nResults,            \* result events delivered so far
    interrupted,         \* history: a barge-in stopped the response on the stream
    userStopped,         \* history: Stop was clicked, Start has not been since
    \* script.js (HTTP edition)
    conversationHistory,
    detached,            \* recognizer objects nothing refers to, not ended
    expectedHistory,     \* every entry since the last clear, in order
    nStarts,             \* clicks on Start so far
    nClears,             \* clicks on Clear so far
    \* part_001
    ws,                  \* "null" | "connecting" | "open"
    isSpeechActive,
    frontendSilenceTimer,
    doneTimers,          \* pending timers of the delay before DONE
    debounceTimers,      \* pending timers of the speech debounce
    closing,             \* sockets closed whose close event is to come
    sinceSpeech,         \* ms since a frame above SILENCE_THRESHOLD (saturating)
    doneSent,            \* "DONE" messages sent on the socket
    nStreams,            \* streams started so far
    nFrames              \* frames with speech processed so far

\* the DOM the programs share by name
domVars == <<status, startBtnDisabled, stopBtnDisabled>>

\* speech recognition state, shared by name between stt.js and script.js
sttVars == <<recognition, isListening, currentText, messageBubble,
             silenceTimer, orphanTimers, restartTimers, inflight, nResults>>

sseVars == <<ttsEnabled, isAISpeaking, eventSource, currentSessionId,
             frontendAudioQueue, isPlayingAudio, audios, openStreams,
             sinceResult, started, chatLog, lastSid, nChunks,
             userStopped,
             interrupted,
             aiMessageBubble>>

httpVars == <<conversationHistory, detached, expectedHistory, nStarts, nClears>>

wsVars == <<ws, isSpeechActive, frontendSilenceTimer, doneTimers,
            debounceTimers, closing, sinceSpeech, doneSent, nStreams, nFrames>>

vars == <<domVars, sttVars, sseVars, httpVars, wsVars>>

\* the current state as a record, and the state after a handler
Cur == [ttsEnabled |-> ttsEnabled, isAISpeaking |-> isAISpeaking,
        eventSource |-> eventSource, currentSessionId |-> currentSessionId,
        recognition |-> recognition, isListening |-> isListening,
        currentText |-> currentText, messageBubble |-> messageBubble,
        silenceTimer |-> silenceTimer,
        frontendAudioQueue |-> frontendAudioQueue,
        isPlayingAudio |-> isPlayingAudio, status |-> status,
        startBtnDisabled |-> startBtnDisabled,
        stopBtnDisabled |-> stopBtnDisabled, audios |-> audios,
        orphanTimers |-> orphanTimers, restartTimers |-> restartTimers,
        inflight |-> inflight, openStreams |-> openStreams,
        sinceResult |-> sinceResult, started |-> started, chatLog |-> chatLog,
        lastSid |-> lastSid, nChunks |-> nChunks, nResults |-> nResults,
        userStopped |-> userStopped,
        interrupted |-> interrupted,
        aiMessageBubble |-> aiMessageBubble]

Becomes(s) ==
    /\ ttsEnabled' = s.ttsEnabled
    /\ isAISpeaking' = s.isAISpeaking
    /\ eventSource' = s.eventSource
    /\ currentSessionId' = s.currentSessionId
    /\ recognition' = s.recognition
    /\ isListening' = s.isListening
    /\ currentText' = s.currentText
    /\ messageBubble' = s.messageBubble
    /\ silenceTimer' = s.silenceTimer
    /\ frontendAudioQueue' = s.frontendAudioQueue
    /\ isPlayingAudio' = s.isPlayingAudio
    /\ status' = s.status
    /\ startBtnDisabled' = s.startBtnDisabled
    /\ stopBtnDisabled' = s.stopBtnDisabled
    /\ audios' = s.audios
    /\ orphanTimers' = s.orphanTimers
    /\ restartTimers' = s.restartTimers
    /\ inflight' = s.inflight
    /\ openStreams' = s.openStreams
    /\ sinceResult' = s.sinceResult
    /\ started' = s.started
    /\ chatLog' = s.chatLog
    /\ lastSid' = s.lastSid
    /\ nChunks' = s.nChunks
    /\ nResults' = s.nResults
    /\ userStopped' = s.userStopped
    /\ interrupted' = s.interrupted
    /\ aiMessageBubble' = s.aiMessageBubble
    /\ UNCHANGED <<httpVars, wsVars>>

\* setTimeout handles: null, a timer that waits ms more, a timer that fired
NullTimer == [st |-> "null", ms |-> 0]
FiredTimer == [st |-> "fired", ms |-> 0]
PendingTimer(ms) == [st |-> "pending", ms |-> ms]

\* script.js (HTTP edition) and part_001 before anything has run
InitHttpVars ==
    /\ conversationHistory = <<>>
    /\ detached = 0
    /\ expectedHistory = <<>>
    /\ nStarts = 0
    /\ nClears = 0

InitWsVars ==
    /\ ws = "null"
    /\ isSpeechActive = FALSE
    /\ frontendSilenceTimer = NullTimer
    /\ doneTimers = <<>>
    /\ debounceTimers = <<>>
    /\ closing = 0
    /\ sinceSpeech = SILENCE_TIMEOUT_MS
    /\ doneSent = 0
    /\ nStreams = 0
    /\ nFrames = 0

\* the page after DOMContentLoaded.  initializeSpeechRecognition leaves
\* recognition null in a browser without the Web Speech API.
Init ==
    /\ InitHttpVars
    /\ InitWsVars
    /\ ttsEnabled = TRUE
    /\ isAISpeaking = FALSE
    /\ eventSource = "null"
    /\ currentSessionId = "null"
    /\ recognition \in {"null", "idle"}
    /\ isListening = FALSE
    /\ currentText = <<>>
    /\ messageBubble = <<>>
    /\ silenceTimer = NullTimer
    /\ frontendAudioQueue = <<>>
    /\ isPlayingAudio = FALSE
    /\ status = ""
    /\ startBtnDisabled = FALSE
    /\ stopBtnDisabled = TRUE
    /\ audios = {}
    /\ orphanTimers = <<>>
    /\ restartTimers = <<>>
    /\ inflight = 0
    /\ openStreams = 0
    /\ sinceResult = SILENCE_TIMEOUT_MS
    /\ started = <<>>
    /\ chatLog = <<>>
    /\ lastSid = "null"
    /\ nChunks = 0
    /\ nResults = 0
    /\ userStopped = FALSE
    /\ interrupted = FALSE
    /\ aiMessageBubble = "null"

\* ------------------------------------------------------------ DOM, browser
updateStatus(s, text) == [s EXCEPT !.status = text]

\* SpeechRecognition.start(): InvalidStateError when start was called and
\* neither end nor error has fired since
startThrows(s) == s.recognition # "idle"

\* SpeechRecognition.stop(): the end event follows; nothing when not started
recognitionStop(s) ==
    [s EXCEPT !.recognition = IF @ = "started" THEN "stopping" ELSE @]

\* ------------------------------------------------------------------ tts.js
\* frontendAudioQueue.shift(): the chunk it returns, the queue it leaves
\* variant: the chunk taken is the newest one
QueueFront_Last(q) == q[Len(q)]

QueueFront(q) == Head(q)

QueueRest(q) == Tail(q)

\* new Audio(url); audio.play()
startAudio(s, chunk) ==
    [s EXCEPT !.audios = @ \cup {[id |-> chunk.id, st |-> "loading"]},
              !.started = Append(@, chunk.id)]

RECURSIVE playNextAudioChunk(_)
playNextAudioChunk(s) ==
    IF s.frontendAudioQueue = <<>>
    THEN LET s1 == [s EXCEPT !.isPlayingAudio = FALSE, !.isAISpeaking = FALSE]
         IN  IF s1.recognition # "null" /\ ~s1.isListening
             THEN IF startThrows(s1)
                  THEN s1  \* the exception ends the call: no status update
                  ELSE updateStatus([s1 EXCEPT !.recognition = "started",
                                               !.isListening = TRUE], "Ready")
             ELSE updateStatus(s1, "Ready")
    ELSE LET s1 == [s EXCEPT !.isPlayingAudio = TRUE, !.isAISpeaking = TRUE]
             s2 == IF s1.recognition # "null" /\ s1.isListening
                   THEN recognitionStop([s1 EXCEPT !.isListening = FALSE])
                   ELSE s1
             s3 == updateStatus(s2, "AI Speaking...")
             chunk == QueueFront(s3.frontendAudioQueue)
             s4 == [s3 EXCEPT !.frontendAudioQueue = QueueRest(@)]
         IN  IF chunk.decodable
             THEN startAudio(s4, chunk)
             ELSE playNextAudioChunk(s4)  \* atob throws: the catch block

playAudioChunk(s, chunk) ==
    IF ~s.ttsEnabled THEN s
    ELSE LET s1 == [s EXCEPT !.frontendAudioQueue = Append(@, chunk)]
         IN  IF ~s1.isPlayingAudio THEN playNextAudioChunk(s1) ELSE s1

\* variant: the flag of speech recognition is left as it is
stopAIAudio_KeepSpeaking(s) ==
    updateStatus([s EXCEPT !.frontendAudioQueue = <<>>,
                           !.isPlayingAudio = FALSE], "Ready")

stopAIAudio(s) ==
    updateStatus([s EXCEPT !.frontendAudioQueue = <<>>,
                           !.isPlayingAudio = FALSE,
                           !.isAISpeaking = FALSE], "Ready")

\* ttsToggle.classList.contains('active') is the handler's input: the
\* handler itself leaves the class as it finds it
\* variant: switching off leaves the player as it is
toggleTTS_KeepQueue(s, active) == [s EXCEPT !.ttsEnabled = active]

toggleTTS(s, active) ==
    LET s1 == [s EXCEPT !.ttsEnabled = active]
    IN  IF active THEN s1 ELSE stopAIAudio(s1)

\* ------------------------------------------------------------------ stt.js
\* a timer nothing refers to any more stays pending
orphan(s, timer) ==
    IF timer.st = "pending"
    THEN [s EXCEPT !.orphanTimers = Append(@, timer.ms)]
    ELSE s

\* clearTimeout(silenceTimer): cancels the timer when it is still pending
clearSilenceTimer(s) == [s EXCEPT !.silenceTimer = NullTimer]

startSilenceTimer(s) ==
    [orphan(s, s.silenceTimer)
        EXCEPT !.silenceTimer = PendingTimer(SILENCE_TIMEOUT_MS)]

\* updateBubble of script.js: nothing without a bubble
updateBubble(s, text) ==
    IF s.messageBubble # <<>> THEN [s EXCEPT !.messageBubble = <<text>>] ELSE s

\* addMessage('', 'user', true)
addUserBubble(s) == [s EXCEPT !.messageBubble = <<(<<>>)>>]

PARTIAL_TAG == <<"[", "P", "]", " ">>

\* text.replace('[PARTIAL] ', ''): the first occurrence is removed
RemovePartialTag(text) ==
    LET n == Len(PARTIAL_TAG)
        at == {i \in 1..(Len(text) - n + 1) : SubSeq(text, i, i + n - 1) = PARTIAL_TAG}
    IN  IF at = {} THEN text
        ELSE LET i == CHOOSE j \in at : \A k \in at : j <= k
             IN  SubSeq(text, 1, i - 1) \o SubSeq(text, i + n, Len(text))

handleSpeech(s, text, isFinal) ==
    LET s1 == IF s.silenceTimer.st # "null" THEN clearSilenceTimer(s) ELSE s
        s2 == IF s1.messageBubble = <<>> THEN addUserBubble(s1) ELSE s1
        s3 == [s2 EXCEPT !.sinceResult = 0]
    IN  IF isFinal
        THEN LET sep == IF s3.currentText # <<>> THEN <<" ">> ELSE <<>>
                 s4 == [s3 EXCEPT !.currentText = @ \o sep \o Trim(text)]
             IN  startSilenceTimer(updateBubble(s4, s4.currentText))
        ELSE updateBubble(s3, s3.currentText \o <<" ">>
                                  \o Trim(RemovePartialTag(text)))

\* variant: no result is filtered out
FilteredOut_Never(confidence) == FALSE

\* confidence < CONFIG.STT_CONFIDENCE_THRESHOLD
FilteredOut(confidence) == confidence < STT_CONFIDENCE_THRESHOLD

\* the transcripts of the results of an event that pass the confidence
\* filter and are final (or interim), concatenated
RECURSIVE Transcript(_, _)
Transcript(results, final) ==
    IF results = <<>> THEN <<>>
    ELSE LET r == Head(results)
         IN  (IF FilteredOut(r.confidence) \/ r.isFinal # final
              THEN <<>> ELSE r.transcript)
             \o Transcript(Tail(results), final)

onresult(s, results) ==
    LET finalTranscript == Transcript(results, TRUE)
        interimTranscript == Transcript(results, FALSE)
    IN  IF s.isAISpeaking /\ finalTranscript # <<>>
        THEN handleSpeech(stopAIAudio(s), finalTranscript, TRUE)
        ELSE IF ~s.isAISpeaking
             THEN IF finalTranscript # <<>>
                  THEN handleSpeech(s, finalTranscript, TRUE)
                  ELSE IF interimTranscript # <<>>
                       THEN handleSpeech(s, interimTranscript, FALSE)
                       ELSE s
             ELSE s

stopListening(s) ==
    LET s1 == [s EXCEPT !.isListening = FALSE, !.startBtnDisabled = FALSE,
                        !.stopBtnDisabled = TRUE]
        s2 == IF s1.recognition # "null" THEN recognitionStop(s1) ELSE s1
    IN  updateStatus(s2, "Ready")

startListening(s) ==
    IF s.recognition = "null" THEN s
    ELSE LET s1 == [s EXCEPT !.isListening = TRUE, !.currentText = <<>>,
                             !.messageBubble = <<>>,
                             !.startBtnDisabled = TRUE,
                             !.stopBtnDisabled = FALSE]
         IN  IF startThrows(s1) THEN s1
             ELSE updateStatus([s1 EXCEPT !.recognition = "started"],
                               "Listening...")

onerror(s) == stopListening(updateStatus(s, "Recognition Error"))

\* the end event: recognition may be started again from here on
onend(s) ==
    LET s1 == [s EXCEPT !.recognition = "idle"]
    IN  IF s1.isListening
        THEN [s1 EXCEPT !.restartTimers = Append(@, STT_RESTART_DELAY_MS)]
        ELSE s1

\* setTimeout(() => recognition.start(), ...): an exception of start() is lost
restartCallback(s) ==
    IF startThrows(s) THEN s ELSE [s EXCEPT !.recognition = "started"]

\* -------------------------------------------------------- script.js (SSE)
\* eventSource.close(): nothing when the object is closed already; the
\* variable goes on referring to the closed object
closeEventSource(s) ==
    IF s.eventSource \notin {"null", "closed"}
    THEN [s EXCEPT !.openStreams = @ - 1, !.eventSource = "closed",
                   !.interrupted = FALSE]
    ELSE s

\* variant: the previous stream is left open
startSSEStream_NoClose(s, sessionId) ==
    [s EXCEPT !.eventSource = sessionId, !.openStreams = @ + 1,
              !.interrupted = FALSE]

startSSEStream(s, sessionId) ==
    LET s1 == IF s.eventSource # "null" THEN closeEventSource(s) ELSE s
    IN  [s1 EXCEPT !.eventSource = sessionId, !.openStreams = @ + 1,
                   !.interrupted = FALSE]

\* case 'connected' of handleSSEMessage
handleSSEConnected(s) == [s EXCEPT !.aiMessageBubble = "null"]

\* case 'text' of handleSSEMessage: addMessage('', 'assistant', false)
\* when there is no bubble
handleSSEText(s) == [s EXCEPT !.aiMessageBubble = "bubble"]

\* case 'audio' of handleSSEMessage
handleSSEAudio(s, chunk) ==
    IF s.ttsEnabled THEN playAudioChunk(s, chunk) ELSE s

clearConversation(s) ==
    LET s1 == stopAIAudio([s EXCEPT !.currentText = <<>>,
                                    !.messageBubble = <<>>,
                                    !.aiMessageBubble = "null"])
    IN  IF s1.eventSource # "null"
        THEN [closeEventSource(s1) EXCEPT !.eventSource = "null"]
        ELSE s1

\* ----------------------------------------------------- stt.js sendMessage
\* fetch('/chat', {method: 'POST', body}): the request leaves, the call
\* waits.  The log keeps, with the body, the session the open stream is
\* for and the session id of the last response processed before the
\* request.
fetchChat(s, body) ==
    [s EXCEPT !.chatLog = Append(@, [message |-> body.message,
                                     session_id |-> body.session_id,
                                     stream |-> s.eventSource,
                                     after |-> s.lastSid]),
              !.inflight = @ + 1]

\* variant: the text is sent whatever it is
sendMessageRequest_NoGuard(s) ==
    LET s1 == [updateStatus(s, "Processing...")
                  EXCEPT !.aiMessageBubble = "null"]
        s2 == startSSEStream(s1, "temp_session")
        s3 == IF s2.messageBubble # <<>>
              THEN [s2 EXCEPT !.messageBubble = <<s2.currentText>>]
              ELSE s2
    IN  fetchChat(s3, [message |-> Trim(s3.currentText),
                       session_id |-> s3.currentSessionId,
                       tts |-> s3.ttsEnabled])

\* up to the await of fetch('/chat', ...)
sendMessageRequest(s) ==
    IF Trim(s.currentText) = <<>> THEN s
    ELSE LET s1 == [updateStatus(s, "Processing...")
                       EXCEPT !.aiMessageBubble = "null"]
             s2 == startSSEStream(s1, "temp_session")
             s3 == IF s2.messageBubble # <<>>
                   THEN [s2 EXCEPT !.messageBubble = <<s2.currentText>>]
                   ELSE s2
         IN  fetchChat(s3, [message |-> Trim(s3.currentText),
                            session_id |-> s3.currentSessionId,
                            tts |-> s3.ttsEnabled])

\* variant: the stream is left open
sendMessageCatch_KeepStream(s) == updateStatus(s, "Error")

\* the catch block
sendMessageCatch(s) ==
    LET s1 == updateStatus(s, "Error")
    IN  IF s1.eventSource # "null"
        THEN [closeEventSource(s1) EXCEPT !.eventSource = "null"]
        ELSE s1

\* "Reset for next message"
sendMessageReset(s) ==
    [orphan(s, s.silenceTimer) EXCEPT !.currentText = <<>>,
                                       !.messageBubble = <<>>,
                                       !.silenceTimer = NullTimer]

\* variant: the stream is restarted, the id is not kept
storeSessionId_Forget(s, data) ==
    startSSEStream(closeEventSource(s), data.session_id)

\* data.session_id is truthy
storeSessionId(s, data) ==
    LET s1 == [s EXCEPT !.currentSessionId = data.session_id]
    IN  startSSEStream(closeEventSource(s1), s1.currentSessionId)

\* from the response on.  resp.kind: "reject" (fetch rejects), "notok",
\* "ok"; resp.session_id: "" when the response has none; resp.audio_chunks:
\* the length of data.audio_chunks.  playAudioChunks is defined nowhere:
\* calling it throws a ReferenceError into the catch block.
sendMessageResponse(s, resp) ==
    LET s0 == [s EXCEPT !.inflight = @ - 1]
    IN  IF resp.kind # "ok" THEN sendMessageReset(sendMessageCatch(s0))
        ELSE LET s1 == IF resp.session_id # ""
                       THEN storeSessionId(s0, resp)
                       ELSE s0
             IN  IF s1.ttsEnabled /\ resp.audio_chunks > 0
                 THEN sendMessageReset(sendMessageCatch(s1))
                 ELSE sendMessageReset(updateStatus(s1, "Ready"))

\* ------------------------------------------------------------------ inputs
\* Results below the confidence threshold carry the transcript "n", the
\* others "a" or white space, so that what a low-confidence result
\* contributes can be told apart in currentText and in the bubble.
LowResults ==
    {[transcript |-> <<"n">>, confidence |-> 5, isFinal |-> f] : f \in BOOLEAN}

Results ==
    LowResults
    \cup {[transcript |-> tc[1], confidence |-> tc[2], isFinal |-> f] :
             tc \in {<< <<"a">>, 7 >>, << <<" ">>, 9 >>}, f \in BOOLEAN}

EventsOver(results) == UNION {[1..n -> results] : n \in 1..MaxEventLen}

IsLow(r) == r.confidence < STT_CONFIDENCE_THRESHOLD

\* Spec: every event
ResultEvents == EventsOver(Results)

\* SpecPlay: events with at most one result that passes, with transcript "a"
PlayEvents ==
    {ev \in EventsOver({r \in Results : r.transcript # <<" ">>}) :
        Cardinality({i \in 1..Len(ev) : ~IsLow(ev[i])}) <= 1}

\* SpecSession: one final result "a"
SessionEvents ==
    {<<[transcript |-> <<"a">>, confidence |-> 9, isFinal |-> TRUE]>>}

LowEvents == EventsOver(LowResults)

SessionIds == {"s1", "s2"}

Failures ==
    {[kind |-> "reject", session_id |-> "", audio_chunks |-> 0],
     [kind |-> "notok", session_id |-> "", audio_chunks |-> 0]}

\* Spec: every outcome, no session id in the response
Responses ==
    Failures \cup {[kind |-> "ok", session_id |-> "", audio_chunks |-> n] :
                       n \in 0..1}

\* SpecPlay: the plain ok response
PlayResponses ==
    {[kind |-> "ok", session_id |-> "", audio_chunks |-> 0]}

\* SpecSession: ok responses with and without a session id, and failures
SessionResponses ==
    Failures \cup {[kind |-> "ok", session_id |-> sid, audio_chunks |-> 0] :
                       sid \in SessionIds \cup {""}}

\* ----------------------------------------------------------------- actions
\* the user clicks Start
StartListening ==
    /\ ~startBtnDisabled
    /\ Becomes(startListening([Cur EXCEPT !.userStopped = FALSE]))

\* the user clicks Stop
StopListening ==
    /\ ~stopBtnDisabled
    /\ Becomes(stopListening([Cur EXCEPT !.userStopped = TRUE]))

\* the change event of the TTS toggle
ToggleTTS ==
    \E active \in BOOLEAN : Becomes(toggleTTS(Cur, active))

\* the user clicks Clear
ClearConversation ==
    Becomes(clearConversation(Cur))

\* the event is a barge-in: the AI speaks and a final transcript passes
IsBargeIn(s, ev) == s.isAISpeaking /\ Transcript(ev, TRUE) # <<>>

\* the state a result event is delivered to, its history brought up to date
Delivered(ev) ==
    [Cur EXCEPT !.nResults = @ + 1,
                !.interrupted = @ \/ IsBargeIn(Cur, ev)]

\* the recognizer delivers a result event
RecognitionResult(events, max) ==
    /\ recognition \in {"started", "stopping"}
    /\ nResults < max
    /\ \E ev \in events : Becomes(onresult(Delivered(ev), ev))

\* the recognizer reports an error; its end event follows
RecognitionError ==
    /\ recognition = "started"
    /\ Becomes(onerror(Cur))

\* the recognizer ends, after stop() or on its own
RecognitionEnd ==
    /\ recognition \in {"started", "stopping"}
    /\ isListening => Len(restartTimers) < MaxRestartTimers
    /\ Becomes(onend(Cur))

\* a restart timer of onend is due
RestartTimerFires ==
    /\ restartTimers # <<>>
    /\ Head(restartTimers) = 0
    /\ Becomes(restartCallback([Cur EXCEPT !.restartTimers = Tail(@)]))

\* the timer silenceTimer refers to is due
SilenceTimerFires ==
    /\ silenceTimer = PendingTimer(0)
    /\ Becomes(sendMessageRequest([Cur EXCEPT !.silenceTimer = FiredTimer]))

\* a silence timer nothing refers to is due
OrphanTimerFires ==
    /\ orphanTimers # <<>>
    /\ Head(orphanTimers) = 0
    /\ Becomes(sendMessageRequest([Cur EXCEPT !.orphanTimers = Tail(@)]))

\* the /chat response of a waiting sendMessage arrives, or its fetch rejects
ChatResponse(responses) ==
    /\ inflight > 0
    /\ \E resp \in responses :
          LET sid == IF resp.kind = "ok" /\ resp.session_id # ""
                     THEN resp.session_id ELSE lastSid
          IN  Becomes(sendMessageResponse([Cur EXCEPT !.lastSid = sid], resp))

\* an 'audio' message arrives on a stream that is open
SSEAudio(max) ==
    /\ openStreams > 0
    /\ nChunks < max
    /\ \E decodable \in BOOLEAN :
          Becomes(handleSSEAudio([Cur EXCEPT !.nChunks = @ + 1],
                                 [id |-> nChunks + 1, decodable |-> decodable]))

\* a 'connected' message arrives on a stream that is open
SSEConnected ==
    /\ openStreams > 0
    /\ Becomes(handleSSEConnected(Cur))

\* a 'text' message arrives on a stream that is open
SSEText ==
    /\ openStreams > 0
    /\ Becomes(handleSSEText(Cur))

Remove(s, a) == [s EXCEPT !.audios = @ \ {a}]

\* the promise of audio.play() resolves: the chunk is heard
PlayResolves ==
    \E a \in audios :
        /\ a.st = "loading"
        /\ Becomes([Cur EXCEPT !.audios = (@ \ {a}) \cup {[a EXCEPT !.st = "playing"]}])

\* the promise of audio.play() rejects (autoplay policy): the catch block
PlayRejects ==
    \E a \in audios :
        /\ a.st = "loading"
        /\ Becomes(playNextAudioChunk(Remove(Cur, a)))

\* the source cannot be played: the error event is fired and the promise
\* of play() is rejected, so onerror runs and then the catch block
MediaError ==
    \E a \in audios :
        /\ a.st = "loading"
        /\ Becomes(playNextAudioChunk(playNextAudioChunk(Remove(Cur, a))))

\* the ended event
AudioEnded ==
    \E a \in audios :
        /\ a.st = "playing"
        /\ Becomes(playNextAudioChunk(Remove(Cur, a)))

\* the error event during playback
AudioError ==
    \E a \in audios :
        /\ a.st = "playing"
        /\ Becomes(playNextAudioChunk(Remove(Cur, a)))

Elapse(ms) == Max(0, ms - TICK_MS)

ElapseAll(timers) == [i \in 1..Len(timers) |-> Elapse(timers[i])]

TimerDue ==
    \/ silenceTimer = PendingTimer(0)
    \/ \E i \in 1..Len(orphanTimers) : orphanTimers[i] = 0
    \/ \E i \in 1..Len(restartTimers) : restartTimers[i] = 0

TimerPending ==
    silenceTimer.st = "pending" \/ orphanTimers # <<>> \/ restartTimers # <<>>

\* TICK_MS pass
Tick ==
    /\ ~TimerDue
    /\ TimerPending \/ sinceResult < SILENCE_TIMEOUT_MS
    /\ Becomes([Cur EXCEPT
          !.silenceTimer = IF @.st = "pending" THEN PendingTimer(Elapse(@.ms)) ELSE @,
          !.orphanTimers = ElapseAll(@),
          !.restartTimers = ElapseAll(@),
          !.sinceResult = Min(SILENCE_TIMEOUT_MS, @ + TICK_MS)])

\* what the three environments share
Common ==
    \/ StartListening
    \/ StopListening
    \/ ToggleTTS
    \/ ClearConversation
    \/ RecognitionError
    \/ RecognitionEnd
    \/ RestartTimerFires
    \/ SilenceTimerFires
    \/ OrphanTimerFires
    \/ Tick

Next ==
    \/ Common
    \/ SSEConnected
    \/ SSEText
    \/ RecognitionResult(ResultEvents, MaxResults)
    \/ ChatResponse(Responses)

Spec == Init /\ [][Next]_vars

Playback ==
    \/ SSEAudio(MaxChunks)
    \/ PlayResolves
    \/ PlayRejects
    \/ MediaError
    \/ AudioEnded
    \/ AudioError

NextPlay ==
    \/ Common
    \/ Playback
    \/ RecognitionResult(PlayEvents, MaxPlayResults)
    \/ ChatResponse(PlayResponses)

SpecPlay == Init /\ [][NextPlay]_vars

NextSession ==
    \/ Common
    \/ RecognitionResult(SessionEvents, MaxSessionResults)
    \/ ChatResponse(SessionResponses)

SpecSession == Init /\ [][NextSession]_vars

\* SpecStream: the sessions environment with the text messages of the
\* stream
NextStream ==
    \/ NextSession
    \/ SSEConnected
    \/ SSEText

SpecStream == Init /\ [][NextStream]_vars

\* SpecSend: one listening session and nothing but what sending is made
\* of: recognition results, silence timers and /chat outcomes.
NextSend ==
    \/ StartListening
    \/ SilenceTimerFires
    \/ OrphanTimerFires
    \/ Tick
    \/ RecognitionResult(SessionEvents, MaxSessionResults)
    \/ ChatResponse(Responses)

SpecSend == Init /\ [][NextSend]_vars

\* SpecLive: the speech environment with the scheduling of the browser.
\* One result per event, final or interim, with the transcript "a"; the
\* user clicks Start and Stop only, the recognizer reports no error.
LiveEvents ==
    {<<[transcript |-> <<"a">>, confidence |-> 9, isFinal |-> f]>> :
        f \in BOOLEAN}

NextLive ==
    \/ StartListening
    \/ StopListening
    \/ RecognitionEnd
    \/ RestartTimerFires
    \/ SilenceTimerFires
    \/ OrphanTimerFires
    \/ Tick
    \/ RecognitionResult(LiveEvents, MaxLiveResults)
    \/ ChatResponse(Responses)

\* Time passes, a timer that is due runs its callback, and a fetch settles
\* (with a response or with a rejection).  Nothing obliges the user to
\* click or the recognizer to deliver an event.
Fairness ==
    /\ WF_vars(Tick)
    /\ WF_vars(RestartTimerFires)
    /\ WF_vars(SilenceTimerFires)
    /\ WF_vars(OrphanTimerFires)
    /\ WF_vars(ChatResponse(Responses))

SpecLive == Init /\ [][NextLive]_vars /\ Fairness

\* ------------------------------------- part_002, second edition of STT
\* The edition of part_002 (lines 138-369) differs from stt.js in
\* sendMessage alone: it generates the session id itself.
\* variant: a new id for every message
initializeSession_Always(s, id) == [s EXCEPT !.currentSessionId = id]

\* id: what `session_${Date.now()}_${Math.random()...}` evaluates to
initializeSession(s, id) ==
    IF s.currentSessionId = "null"
    THEN [s EXCEPT !.currentSessionId = id]
    ELSE s

\* up to the await of fetch('/chat', ...)
sendMessageRequest2(s, id) ==
    IF Trim(s.currentText) = <<>> THEN s
    ELSE LET s0 == [updateStatus(s, "Processing...")
                       EXCEPT !.aiMessageBubble = "null"]
             s1 == initializeSession(s0, id)
             s2 == startSSEStream(s1, s1.currentSessionId)
             s3 == IF s2.messageBubble # <<>>
                   THEN [s2 EXCEPT !.messageBubble = <<s2.currentText>>]
                   ELSE s2
         IN  fetchChat(s3, [message |-> Trim(s3.currentText),
                            session_id |-> s3.currentSessionId,
                            tts |-> s3.ttsEnabled])

\* from the response on: data.session_id is not read
sendMessageResponse2(s, resp) ==
    LET s0 == [s EXCEPT !.inflight = @ - 1]
    IN  IF resp.kind # "ok" THEN sendMessageReset(sendMessageCatch(s0))
        ELSE IF s0.ttsEnabled /\ resp.audio_chunks > 0
             THEN sendMessageReset(sendMessageCatch(s0))
             ELSE sendMessageReset(updateStatus(s0, "Ready"))

\* SpecGen: failures and ok responses, with and without audio
GenResponses ==
    Failures \cup {[kind |-> "ok", session_id |-> "s2", audio_chunks |-> n] :
                       n \in 0..1}

SilenceTimerFires2 ==
    /\ silenceTimer = PendingTimer(0)
    /\ \E id \in SessionIds :
          Becomes(sendMessageRequest2([Cur EXCEPT !.silenceTimer = FiredTimer],
                                      id))

OrphanTimerFires2 ==
    /\ orphanTimers # <<>>
    /\ Head(orphanTimers) = 0
    /\ \E id \in SessionIds :
          Becomes(sendMessageRequest2([Cur EXCEPT !.orphanTimers = Tail(@)],
                                      id))

ChatResponse2 ==
    /\ inflight > 0
    /\ \E resp \in GenResponses : Becomes(sendMessageResponse2(Cur, resp))

NextGen ==
    \/ StartListening
    \/ StopListening
    \/ ToggleTTS
    \/ ClearConversation
    \/ RecognitionError
    \/ RecognitionEnd
    \/ RestartTimerFires
    \/ Tick
    \/ RecognitionResult(SessionEvents, MaxGenResults)
    \/ SilenceTimerFires2
    \/ OrphanTimerFires2
    \/ ChatResponse2

SpecGen == Init /\ [][NextGen]_vars

\* ------------------------------------------------ script.js (HTTP edition)
CurHttp == [status |-> status, startBtnDisabled |-> startBtnDisabled,
            stopBtnDisabled |-> stopBtnDisabled, recognition |-> recognition,
            isListening |-> isListening, currentText |-> currentText,
            messageBubble |-> messageBubble, silenceTimer |-> silenceTimer,
            orphanTimers |-> orphanTimers, restartTimers |-> restartTimers,
            inflight |-> inflight, nResults |-> nResults,
            conversationHistory |-> conversationHistory,
            detached |-> detached, expectedHistory |-> expectedHistory,
            nStarts |-> nStarts, nClears |-> nClears]

BecomesHttp(s) ==
    /\ status' = s.status
    /\ startBtnDisabled' = s.startBtnDisabled
    /\ stopBtnDisabled' = s.stopBtnDisabled
    /\ recognition' = s.recognition
    /\ isListening' = s.isListening
    /\ currentText' = s.currentText
    /\ messageBubble' = s.messageBubble
    /\ silenceTimer' = s.silenceTimer
    /\ orphanTimers' = s.orphanTimers
    /\ restartTimers' = s.restartTimers
    /\ inflight' = s.inflight
    /\ nResults' = s.nResults
    /\ conversationHistory' = s.conversationHistory
    /\ detached' = s.detached
    /\ expectedHistory' = s.expectedHistory
    /\ nStarts' = s.nStarts
    /\ nClears' = s.nClears
    /\ UNCHANGED <<sseVars, wsVars>>

\* the page after DOMContentLoaded: no recognizer exists before Start
InitHttp ==
    /\ InitHttpVars
    /\ InitWsVars
    /\ ttsEnabled = TRUE
    /\ isAISpeaking = FALSE
    /\ eventSource = "null"
    /\ currentSessionId = "null"
    /\ recognition = "null"
    /\ isListening = FALSE
    /\ currentText = <<>>
    /\ messageBubble = <<>>
    /\ silenceTimer = NullTimer
    /\ frontendAudioQueue = <<>>
    /\ isPlayingAudio = FALSE
    /\ status = "Ready"
    /\ startBtnDisabled = FALSE
    /\ stopBtnDisabled = TRUE
    /\ audios = {}
    /\ orphanTimers = <<>>
    /\ restartTimers = <<>>
    /\ inflight = 0
    /\ openStreams = 0
    /\ sinceResult = SILENCE_TIMEOUT_MS
    /\ started = <<>>
    /\ chatLog = <<>>
    /\ lastSid = "null"
    /\ nChunks = 0
    /\ nResults = 0
    /\ userStopped = FALSE
    /\ interrupted = FALSE
    /\ aiMessageBubble = "null"

ELLIPSIS == <<".", ".", ".">>

TRUNCATED == ELLIPSIS \o <<" ", "(", "t", "r", "u", "n", "c", "a", "t", "e", "d", ")">>

\* str.substring(0, n)
Substring0(str, n) == SubSeq(str, 1, Min(n, Len(str)))

handleSpeechHttp(s, text, isFinal) ==
    LET s1 == IF s.silenceTimer.st # "null" THEN clearSilenceTimer(s) ELSE s
        s2 == IF s1.messageBubble = <<>> THEN addUserBubble(s1) ELSE s1
    IN  IF isFinal
        THEN LET sep == IF s2.currentText # <<>> THEN <<" ">> ELSE <<>>
                 full == s2.currentText \o sep \o Trim(text)
                 s3 == IF Len(full) > MAX_MESSAGE_LENGTH
                       THEN LET cut == Substring0(full, MAX_MESSAGE_LENGTH)
                            IN  updateBubble([s2 EXCEPT !.currentText = cut],
                                             cut \o TRUNCATED)
                       ELSE updateBubble([s2 EXCEPT !.currentText = full], full)
             IN  [s3 EXCEPT !.silenceTimer = PendingTimer(SILENCE_TIMEOUT_MS)]
        ELSE IF s2.messageBubble # <<>>
             THEN LET displayText == s2.currentText \o <<" ">>
                                       \o Trim(RemovePartialTag(text))
                  IN  IF Len(displayText) > MAX_MESSAGE_LENGTH
                      THEN updateBubble(s2, Substring0(displayText, MAX_MESSAGE_LENGTH)
                                              \o ELLIPSIS)
                      ELSE updateBubble(s2, displayText)
             ELSE s2

\* recognition.onresult of the HTTP edition: no confidence filter
onresultHttp(s, results) ==
    LET finalTranscript ==
            Transcript([i \in 1..Len(results) |->
                           [results[i] EXCEPT !.confidence = 10]], TRUE)
        interimTranscript ==
            Transcript([i \in 1..Len(results) |->
                           [results[i] EXCEPT !.confidence = 10]], FALSE)
    IN  IF finalTranscript # <<>> THEN handleSpeechHttp(s, finalTranscript, TRUE)
        ELSE IF interimTranscript # <<>>
             THEN handleSpeechHttp(s, interimTranscript, FALSE)
             ELSE s

\* variant: the oldest entries are kept
TrimHistory_Oldest(history) ==
    IF Len(history) > HISTORY_LIMIT
    THEN SubSeq(history, 1, HISTORY_LIMIT)
    ELSE history

\* if (conversationHistory.length > 20) conversationHistory.slice(-20)
TrimHistory(history) ==
    IF Len(history) > HISTORY_LIMIT
    THEN SubSeq(history, Len(history) - HISTORY_LIMIT + 1, Len(history))
    ELSE history

\* sendToAI up to the await of fetch('/chat', ...)
sendToAIRequest(s) ==
    IF Trim(s.currentText) = <<>> THEN s
    ELSE LET s1 == updateStatus(s, "Processing...")
             s2 == IF s1.messageBubble # <<>>
                   THEN [s1 EXCEPT !.messageBubble = <<s1.currentText>>]
                   ELSE s1
         IN  [s2 EXCEPT !.inflight = @ + 1]

\* sendToAI from the response on.  resp.kind: "reject" (fetch rejects),
\* "notok", "badjson" (response.json() rejects), "ok"
sendToAIResponse(s, resp) ==
    LET s0 == [s EXCEPT !.inflight = @ - 1]
        s1 == CASE resp.kind = "ok" ->
                     LET pushed == (s0.conversationHistory
                                      \o <<[role |-> "user",
                                            content |-> s0.currentText]>>)
                                      \o <<[role |-> "assistant",
                                            content |-> resp.response]>>
                     IN  updateStatus([s0 EXCEPT !.conversationHistory =
                                                    TrimHistory(pushed)],
                                      "Ready")
                [] resp.kind = "notok" -> updateStatus(s0, "Error")
                [] OTHER -> updateStatus(s0, "Connection Error")
    IN  [orphan(s1, s1.silenceTimer) EXCEPT !.currentText = <<>>,
                                            !.messageBubble = <<>>,
                                            !.silenceTimer = NullTimer]

\* window.currentRecognition.stop(): the object is let go; its end event
\* follows when it was started
stopCurrentRecognition(s) ==
    [s EXCEPT !.recognition = "null",
              !.detached = IF s.recognition = "started" THEN @ + 1 ELSE @]

stopListeningHttp(s) ==
    IF ~s.isListening THEN s
    ELSE LET s1 == [s EXCEPT !.isListening = FALSE]
             s2 == IF s1.silenceTimer.st # "null" THEN clearSilenceTimer(s1) ELSE s1
             s3 == IF s2.recognition # "null" THEN stopCurrentRecognition(s2) ELSE s2
             s4 == IF Trim(s3.currentText) # <<>> THEN sendToAIRequest(s3) ELSE s3
         IN  updateStatus([s4 EXCEPT !.startBtnDisabled = FALSE,
                                     !.stopBtnDisabled = TRUE], "Ready")

\* checkWebKitSupport() holds in SpecHttp
startListeningHttp(s) ==
    IF s.isListening THEN s
    ELSE LET s1 == [s EXCEPT !.isListening = TRUE, !.currentText = <<>>,
                             !.startBtnDisabled = TRUE,
                             !.stopBtnDisabled = FALSE]
             s2 == addUserBubble(updateStatus(s1, "Listening..."))
         IN  [s2 EXCEPT !.recognition = "started"]

onerrorHttp(s) == stopListeningHttp(updateStatus(s, "Error"))

\* recognition.onend: isListening is the page's, not the object's
onendHttp(s) ==
    IF s.isListening
    THEN [s EXCEPT !.restartTimers = Append(@, STT_RESTART_DELAY_MS)]
    ELSE s

clearConversationHttp(s) ==
    [s EXCEPT !.currentText = <<>>, !.messageBubble = <<>>,
              !.conversationHistory = <<>>]

\* inputs: one final result "a"; the k-th answer since the last clear reads
\* "r" and the two digits of k, so that the assistant entries differ
Digit(d) == <<"0", "1", "2", "3", "4", "5", "6", "7", "8", "9">>[d + 1]

ResponseText(k) == <<"r", Digit((k \div 10) % 10), Digit(k % 10)>>

HttpResponses(k) ==
    {[kind |-> kind, response |-> ResponseText(k)] :
        kind \in {"ok", "notok", "reject", "badjson"}}

\* the entries the memory is to hold, were it never trimmed
Expected(s, resp) ==
    IF resp.kind = "ok"
    THEN [s EXCEPT !.expectedHistory =
                      (@ \o <<[role |-> "user", content |-> s.currentText]>>)
                         \o <<[role |-> "assistant", content |-> resp.response]>>]
    ELSE s

StartListeningHttp ==
    /\ ~startBtnDisabled
    /\ nStarts < MaxStarts
    /\ BecomesHttp(startListeningHttp([CurHttp EXCEPT !.nStarts = @ + 1]))

\* the handler is about to call sendToAI and a call may still be issued
MaySend == Trim(currentText) # <<>> => inflight < MaxInflight

StopListeningHttp ==
    /\ ~stopBtnDisabled
    /\ detached < MaxDetached
    /\ MaySend
    /\ BecomesHttp(stopListeningHttp(CurHttp))

ClearConversationHttp ==
    /\ nClears < MaxClears
    /\ BecomesHttp(clearConversationHttp([CurHttp EXCEPT !.expectedHistory = <<>>,
                                                         !.nClears = @ + 1]))

\* a recognizer that is started, referred to or not, delivers a result event
RecognitionResultHttp ==
    /\ recognition = "started" \/ detached > 0
    /\ nResults < MaxHttpResults
    /\ Len(currentText) < MaxTextLen
    /\ \E ev \in SessionEvents :
          BecomesHttp(onresultHttp([CurHttp EXCEPT !.nResults = @ + 1], ev))

\* the recognizer window.currentRecognition refers to reports an error
RecognitionErrorHttp ==
    /\ recognition = "started"
    /\ detached < MaxDetached
    /\ MaySend
    /\ BecomesHttp(onerrorHttp(CurHttp))

\* the recognizer window.currentRecognition refers to ends on its own
RecognitionEndHttp ==
    /\ recognition = "started"
    /\ Len(restartTimers) < MaxRestartTimers
    /\ BecomesHttp(onendHttp([CurHttp EXCEPT !.recognition = "idle"]))

\* a recognizer nothing refers to ends
DetachedEndHttp ==
    /\ detached > 0
    /\ isListening => Len(restartTimers) < MaxRestartTimers
    /\ BecomesHttp(onendHttp([CurHttp EXCEPT !.detached = @ - 1]))

\* setTimeout(() => recognition.start(), 100) of onend: the object starts,
\* whether window.currentRecognition still refers to it or not
RestartTimerFiresHttp ==
    /\ restartTimers # <<>>
    /\ Head(restartTimers) = 0
    /\ recognition # "idle" => detached < MaxDetached
    /\ BecomesHttp([CurHttp EXCEPT
          !.restartTimers = Tail(@),
          !.recognition = IF @ = "idle" THEN "started" ELSE @,
          !.detached = IF recognition = "idle" THEN @ ELSE @ + 1])

SilenceTimerFiresHttp ==
    /\ silenceTimer = PendingTimer(0)
    /\ MaySend
    /\ BecomesHttp(sendToAIRequest([CurHttp EXCEPT !.silenceTimer = FiredTimer]))

OrphanTimerFiresHttp ==
    /\ orphanTimers # <<>>
    /\ Head(orphanTimers) = 0
    /\ MaySend
    /\ BecomesHttp(sendToAIRequest([CurHttp EXCEPT !.orphanTimers = Tail(@)]))

\* the /chat response of a waiting sendToAI arrives, or its fetch rejects
ChatResponseHttp ==
    /\ inflight > 0
    /\ \E resp \in HttpResponses(Len(expectedHistory) \div 2 + 1) :
          BecomesHttp(sendToAIResponse(Expected(CurHttp, resp), resp))

TickHttp ==
    /\ ~TimerDue
    /\ TimerPending
    /\ BecomesHttp([CurHttp EXCEPT
          !.silenceTimer = IF @.st = "pending" THEN PendingTimer(Elapse(@.ms)) ELSE @,
          !.orphanTimers = ElapseAll(@),
          !.restartTimers = ElapseAll(@)])

NextHttp ==
    \/ StartListeningHttp
    \/ StopListeningHttp
    \/ ClearConversationHttp
    \/ RecognitionResultHttp
    \/ RecognitionErrorHttp
    \/ RecognitionEndHttp
    \/ DetachedEndHttp
    \/ RestartTimerFiresHttp
    \/ SilenceTimerFiresHttp
    \/ OrphanTimerFiresHttp
    \/ ChatResponseHttp
    \/ TickHttp

SpecHttp == InitHttp /\ [][NextHttp]_vars

\* ---------------------------------------------------------------- part_001
CurWs == [status |-> status, startBtnDisabled |-> startBtnDisabled,
          stopBtnDisabled |-> stopBtnDisabled, ws |-> ws,
          isSpeechActive |-> isSpeechActive,
          frontendSilenceTimer |-> frontendSilenceTimer,
          doneTimers |-> doneTimers, debounceTimers |-> debounceTimers,
          closing |-> closing, sinceSpeech |-> sinceSpeech,
          doneSent |-> doneSent, nStreams |-> nStreams, nFrames |-> nFrames]

BecomesWs(s) ==
    /\ status' = s.status
    /\ startBtnDisabled' = s.startBtnDisabled
    /\ stopBtnDisabled' = s.stopBtnDisabled
    /\ ws' = s.ws
    /\ isSpeechActive' = s.isSpeechActive
    /\ frontendSilenceTimer' = s.frontendSilenceTimer
    /\ doneTimers' = s.doneTimers
    /\ debounceTimers' = s.debounceTimers
    /\ closing' = s.closing
    /\ sinceSpeech' = s.sinceSpeech
    /\ doneSent' = s.doneSent
    /\ nStreams' = s.nStreams
    /\ nFrames' = s.nFrames
    /\ UNCHANGED <<sttVars, sseVars, httpVars>>

\* the page of part_001 after its load event
InitWs ==
    /\ InitHttpVars
    /\ InitWsVars
    /\ ttsEnabled = TRUE
    /\ isAISpeaking = FALSE
    /\ eventSource = "null"
    /\ currentSessionId = "null"
    /\ recognition = "null"
    /\ isListening = FALSE
    /\ currentText = <<>>
    /\ messageBubble = <<>>
    /\ silenceTimer = NullTimer
    /\ frontendAudioQueue = <<>>
    /\ isPlayingAudio = FALSE
    /\ status = ""
    /\ startBtnDisabled = FALSE
    /\ stopBtnDisabled = TRUE
    /\ audios = {}
    /\ orphanTimers = <<>>
    /\ restartTimers = <<>>
    /\ inflight = 0
    /\ openStreams = 0
    /\ sinceResult = SILENCE_TIMEOUT_MS
    /\ started = <<>>
    /\ chatLog = <<>>
    /\ lastSid = "null"
    /\ nChunks = 0
    /\ nResults = 0
    /\ userStopped = FALSE
    /\ interrupted = FALSE
    /\ aiMessageBubble = "null"

\* clearTimeout(frontendSilenceTimer) without frontendSilenceTimer = null:
\* the variable keeps the handle of a timer that will not fire
startFrontendSilenceTimer(s) ==
    IF s.isSpeechActive
    THEN [s EXCEPT !.frontendSilenceTimer = PendingTimer(SILENCE_TIMEOUT_MS)]
    ELSE [s EXCEPT !.frontendSilenceTimer =
                      IF @.st = "null" THEN @ ELSE FiredTimer]

stopFrontendSilenceTimer(s) == [s EXCEPT !.frontendSilenceTimer = NullTimer]

resetFrontendSilenceTimer(s) ==
    LET s1 == stopFrontendSilenceTimer(s)
    IN  IF s1.isSpeechActive THEN startFrontendSilenceTimer(s1) ELSE s1

endSpeechSession(s) ==
    stopFrontendSilenceTimer([s EXCEPT !.isSpeechActive = FALSE])

\* ws.send("DONE") when the socket is open; the timers that then trigger
\* the LLM response touch nothing modelled here
sendDoneSignal(s) ==
    IF s.ws = "open"
    THEN endSpeechSession([s EXCEPT !.doneSent = @ + 1])
    ELSE s

\* the callback of the silence timer: the delay before DONE, in a timer of
\* its own that no variable refers to
silenceCallback(s) == [s EXCEPT !.doneTimers = Append(@, DONE_DELAY_MS)]

startSpeechSession(s) ==
    IF ~s.isSpeechActive
    THEN resetFrontendSilenceTimer(
             updateStatus([s EXCEPT !.isSpeechActive = TRUE], "Transcribing..."))
    ELSE s

\* the callback of the debounce timer: rms is the value of the frame that
\* armed the timer, which was above SILENCE_THRESHOLD
debounceCallback(s) ==
    IF ~s.isSpeechActive THEN startSpeechSession(s) ELSE s

\* processor.onaudioprocess; speech: rms > CONFIG.SILENCE_THRESHOLD
onaudioprocess(s, speech) ==
    IF s.ws # "open" \/ ~speech THEN s
    ELSE IF ~s.isSpeechActive
         THEN [s EXCEPT !.debounceTimers = Append(@, SPEECH_DEBOUNCE_MS)]
         ELSE resetFrontendSilenceTimer(s)

\* cleanup(): an open socket is sent STOP and closed, its close event follows
cleanup(s) ==
    [s EXCEPT !.closing = IF s.ws = "open" THEN @ + 1 ELSE @,
              !.ws = "null",
              !.startBtnDisabled = FALSE,
              !.stopBtnDisabled = TRUE]

\* startStreaming, with the microphone granted
startStreaming(s) ==
    IF s.ws = "open" THEN updateStatus(s, "Already streaming.")
    ELSE [s EXCEPT !.ws = "connecting"]

wsOnopen(s) ==
    resetFrontendSilenceTimer(
        updateStatus([s EXCEPT !.ws = "open", !.stopBtnDisabled = FALSE,
                               !.startBtnDisabled = TRUE], "Listening..."))

wsOnclose(s) ==
    cleanup(stopFrontendSilenceTimer(updateStatus(s, "Connection closed.")))

\* the click handler of the Stop button
stopClick(s) ==
    cleanup(stopFrontendSilenceTimer(updateStatus(s, "Stopping...")))

\* the user clicks Start, once per stream and after the last one has closed
StartStreaming ==
    /\ ~startBtnDisabled
    /\ ws = "null"
    /\ closing = 0
    /\ nStreams < MaxStreams
    /\ BecomesWs(startStreaming([CurWs EXCEPT !.nStreams = @ + 1]))

WsOpen ==
    /\ ws = "connecting"
    /\ BecomesWs(wsOnopen(CurWs))

\* the server closes the socket
WsServerClose ==
    /\ ws = "open"
    /\ BecomesWs(wsOnclose([CurWs EXCEPT !.ws = "closed"]))

\* the close event of a socket cleanup() closed
WsClosed ==
    /\ closing > 0
    /\ BecomesWs(wsOnclose([CurWs EXCEPT !.closing = @ - 1]))

StopStreaming ==
    /\ ~stopBtnDisabled
    /\ BecomesWs(stopClick(CurWs))

\* the processor delivers a frame with speech
SpeechFrame ==
    /\ ws = "open"
    /\ nFrames < MaxSpeechFrames
    /\ ~isSpeechActive => Len(debounceTimers) < MaxWsTimers
    /\ BecomesWs(onaudioprocess([CurWs EXCEPT !.nFrames = @ + 1,
                                              !.sinceSpeech = 0], TRUE))

DebounceTimerFires ==
    /\ debounceTimers # <<>>
    /\ Head(debounceTimers) = 0
    /\ BecomesWs(debounceCallback([CurWs EXCEPT !.debounceTimers = Tail(@)]))

FrontendSilenceTimerFires ==
    /\ frontendSilenceTimer = PendingTimer(0)
    /\ Len(doneTimers) < MaxWsTimers
    /\ BecomesWs(silenceCallback([CurWs EXCEPT !.frontendSilenceTimer = FiredTimer]))

DoneTimerFires ==
    /\ doneTimers # <<>>
    /\ Head(doneTimers) = 0
    /\ BecomesWs(sendDoneSignal([CurWs EXCEPT !.doneTimers = Tail(@)]))

ElapseWs(ms) == Max(0, ms - WS_TICK_MS)

ElapseAllWs(timers) == [i \in 1..Len(timers) |-> ElapseWs(timers[i])]

TimerDueWs ==
    \/ frontendSilenceTimer = PendingTimer(0)
    \/ \E i \in 1..Len(doneTimers) : doneTimers[i] = 0
    \/ \E i \in 1..Len(debounceTimers) : debounceTimers[i] = 0

\* WS_TICK_MS pass
TickWs ==
    /\ ~TimerDueWs
    /\ \/ frontendSilenceTimer.st = "pending"
       \/ doneTimers # <<>>
       \/ debounceTimers # <<>>
       \/ sinceSpeech < SILENCE_TIMEOUT_MS
    /\ BecomesWs([CurWs EXCEPT
          !.frontendSilenceTimer =
              IF @.st = "pending" THEN PendingTimer(ElapseWs(@.ms)) ELSE @,
          !.doneTimers = ElapseAllWs(@),
          !.debounceTimers = ElapseAllWs(@),
          !.sinceSpeech = Min(SILENCE_TIMEOUT_MS, @ + WS_TICK_MS)])

NextWs ==
    \/ StartStreaming
    \/ WsOpen
    \/ WsServerClose
    \/ WsClosed
    \/ StopStreaming
    \/ SpeechFrame
    \/ DebounceTimerFires
    \/ FrontendSilenceTimerFires
    \/ DoneTimerFires
    \/ TickWs

SpecWs == InitWs /\ [][NextWs]_vars

\* ------------------------------------------------------------------ claims
\* C1: at most one audio chunk plays at a time: a chunk's playback begins
\* only when every chunk begun before it has ended or failed.
C1_SequentialPlayback == Cardinality(audios) <= 1

\* C2: the chunks begin playback in the order they were enqueued (their
\* ids are the order of arrival) and none begins twice.
C2_FifoOnce ==
    \A i, j \in 1..Len(started) : i < j => started[i] < started[j]

\* three chunks have begun playback, and a chunk has played beside another
C2_Witness == Len(started) = MaxChunks /\ Cardinality(audios) = 2

\* C3: at most one silence timer is pending, and a silence timer is due
\* only when handleSpeech has handled no result for SILENCE_TIMEOUT_MS.
PendingSilenceTimers ==
    Len(orphanTimers) + (IF silenceTimer.st = "pending" THEN 1 ELSE 0)

SilenceTimerDue ==
    \/ silenceTimer = PendingTimer(0)
    \/ \E i \in 1..Len(orphanTimers) : orphanTimers[i] = 0

C3_Debounce ==
    /\ PendingSilenceTimers <= 1
    /\ SilenceTimerDue => sinceResult >= SILENCE_TIMEOUT_MS

\* C4: the first /chat request carries session_id null, and every request
\* carries the session id of the last response processed before it that
\* had one (so never an id the client made up).
C4_SessionIdFollowsBackend ==
    /\ chatLog # <<>> => chatLog[1].session_id = "null"
    /\ \A i \in 1..Len(chatLog) : chatLog[i].session_id = chatLog[i].after

\* a request carries "s2" after an earlier request carried "s1"
C4_Witness ==
    \E i, j \in 1..Len(chatLog) :
        i < j /\ chatLog[i].session_id = "s1" /\ chatLog[j].session_id = "s2"

\* C5: in the second edition of part_002 the session id, once generated,
\* never changes, and every /chat request carries it and follows the
\* opening of a stream for it.
C5_SessionIdGeneratedOnce ==
    /\ [][currentSessionId # "null" => currentSessionId' = currentSessionId]_vars
    /\ [](\A i \in 1..Len(chatLog) :
            /\ chatLog[i].session_id # "null"
            /\ chatLog[i].session_id = chatLog[1].session_id
            /\ chatLog[i].stream = chatLog[i].session_id)

\* sendMessage has run three times, the last time after the stream was closed
C5_Witness ==
    /\ Len(chatLog) = MaxGenResults
    /\ currentSessionId = "s1"
    /\ eventSource = "null"

\* C6: a result below the confidence threshold contributes nothing to
\* currentText, to the user bubble or to a message sent; where a result
\* event can be delivered, every event acts as it would without its results
\* below the threshold (on the text, the bubble, the silence timers, the
\* audio queue and its flags); and an event made of such results only
\* leaves the page as it was: only the count of events delivered moves.
NoLowConfidenceText ==
    /\ "n" \notin Chars(currentText)
    /\ messageBubble # <<>> => "n" \notin Chars(messageBubble[1])
    /\ \A i \in 1..Len(chatLog) : "n" \notin Chars(chatLog[i].message)

\* the step is onresult with an event of low-confidence results only
LowEventStep ==
    /\ nResults' = nResults + 1
    /\ \E ev \in LowEvents : Becomes(onresult(Delivered(ev), ev))

PageVars ==
    <<ttsEnabled, isAISpeaking, eventSource, currentSessionId, recognition,
      isListening, currentText, messageBubble, silenceTimer,
      frontendAudioQueue, isPlayingAudio, status, startBtnDisabled,
      stopBtnDisabled, audios, orphanTimers, restartTimers, inflight,
      openStreams, sinceResult, started, chatLog, aiMessageBubble,
      userStopped, interrupted>>

\* the recognizer can deliver a result event
ResultDeliverable ==
    recognition \in {"started", "stopping"} /\ nResults < MaxPlayResults

\* an event acts as the event without its low-confidence results does
SameAsWithoutLow ==
    \A ev \in PlayEvents :
        onresult(Cur, ev) = onresult(Cur, SelectSeq(ev, LAMBDA r : ~IsLow(r)))

C7_DoneAfterSilence ==
    [][doneSent' # doneSent =>
         (isSpeechActive /\ ws = "open" /\ sinceSpeech >= SILENCE_TIMEOUT_MS)]_vars

\* C8: while ttsEnabled is false the queue is empty and no chunk begins
\* playback; the step that switches TTS off leaves the queue empty and
\* isPlayingAudio and isAISpeaking false.
C8_TtsOff ==
    /\ [](~ttsEnabled => frontendAudioQueue = <<>>)
    /\ [][~ttsEnabled => started' = started]_vars
    /\ [][(ttsEnabled /\ ~ttsEnabled') =>
            (/\ frontendAudioQueue' = <<>>
             /\ ~isPlayingAudio'
             /\ ~isAISpeaking')]_vars

\* TTS is off, every chunk has been delivered, one of them is still heard
C8_Witness ==
    ~ttsEnabled /\ nChunks = MaxChunks /\ audios # {} /\ Len(started) < nChunks

\* the last n entries of a history
Suffix(history, n) ==
    SubSeq(history, Max(1, Len(history) - n + 1), Len(history))

\* C9: conversationHistory holds at most HISTORY_LIMIT entries, user and
\* assistant in turn, and they are the most recent of the entries that the
\* ok responses since the last clear added, in their order.
C9_HistoryBound ==
    /\ Len(conversationHistory) <= HISTORY_LIMIT
    /\ conversationHistory = Suffix(expectedHistory, HISTORY_LIMIT)
    /\ \A i \in 1..Len(conversationHistory) :
          conversationHistory[i].role =
              IF i % 2 = 1 THEN "user" ELSE "assistant"
    /\ Len(conversationHistory) % 2 = 0

\* the memory has been trimmed and a request is waiting
C9_Witness ==
    /\ Len(expectedHistory) > HISTORY_LIMIT
    /\ Len(conversationHistory) = HISTORY_LIMIT
    /\ inflight > 0

\* C10: when a step of the player (a chunk delivered to an idle player, or
\* an event of an Audio element) leaves the queue empty and no Audio
\* element behind, isPlayingAudio and isAISpeaking are false and the status
\* is 'Ready'.
PlayerStep ==
    \/ nChunks' # nChunks /\ ttsEnabled /\ ~isPlayingAudio
    \/ \E a \in audios : \A b \in audios' : b.id # a.id

C10_DrainsToReady ==
    [][(PlayerStep /\ frontendAudioQueue' = <<>> /\ audios' = {}) =>
        (~isPlayingAudio' /\ ~isAISpeaking' /\ status' = "Ready")]_vars

\* C11: isAISpeaking equals isPlayingAudio in every state, and both are
\* false after a step in which stopAIAudio ran (Clear, TTS switched off, a
\* final transcript while the AI speaks) and after a step in which an Audio
\* element went and the player found the queue drained: no such step
\* leaves one of the flags true.
BargeInStep ==
    /\ nResults' = nResults + 1
    /\ isAISpeaking
    /\ \E ev \in PlayEvents :
          /\ Transcript(ev, TRUE) # <<>>
          /\ Becomes(onresult(Delivered(ev), ev))

StopAIAudioStep ==
    \/ Becomes(clearConversation(Cur))
    \/ Becomes(toggleTTS(Cur, FALSE))
    \/ BargeInStep

DrainedStep ==
    /\ Cardinality(audios') < Cardinality(audios)
    /\ started' = started

C11_FlagsInSync ==
    /\ [](isAISpeaking = isPlayingAudio)
    /\ [][(isAISpeaking' \/ isPlayingAudio') =>
            ~(DrainedStep \/ StopAIAudioStep)]_vars

\* stopAIAudio has emptied the queue of a chunk while another was heard,
\* and TTS is still on
C11_Witness ==
    /\ ttsEnabled /\ ~isPlayingAudio /\ ~isAISpeaking
    /\ frontendAudioQueue = <<>>
    /\ \E a \in audios : a.st = "playing" /\ Len(started) = a.id /\ nChunks > a.id

\* C12: while isPlayingAudio is true, isListening is false, no restart
\* timer of recognition.onend is pending and recognition is not running.
C12_NoListeningWhilePlaying ==
    isPlayingAudio =>
        /\ ~isListening
        /\ restartTimers = <<>>
        /\ recognition # "started"

\* C13: the end event of recognition schedules a restart, due in
\* STT_RESTART_DELAY_MS, when isListening is true and schedules nothing
\* otherwise; and a restart timer calls recognition.start() only while
\* isListening is true.
RecognitionEndStep == recognition # "idle" /\ recognition' = "idle"

RestartCallbackStep == Len(restartTimers') < Len(restartTimers)

C13_RestartOnlyWhileListening ==
    /\ [][RecognitionEndStep =>
            restartTimers' = IF isListening
                             THEN Append(restartTimers, STT_RESTART_DELAY_MS)
                             ELSE restartTimers]_vars
    /\ [][RestartCallbackStep => isListening]_vars

\* C14: from the user's click on Stop to the next click on Start,
\* isListening is false and no step starts recognition.
C14_UserStopRespected ==
    /\ [](userStopped => ~isListening)
    /\ [][(userStopped /\ userStopped') =>
            (recognition' = "started" => recognition = "started")]_vars

\* C15: a final transcript delivered while isAISpeaking is true empties the
\* queue, leaves isAISpeaking and isPlayingAudio false, appends the
\* transcript to currentText and arms the silence timer; from then on no
\* chunk of the response that the open stream carries begins playback; and
\* an event with interim results only, delivered while isAISpeaking is
\* true, changes nothing.
Appended(text, transcript) ==
    text \o (IF text # <<>> THEN <<" ">> ELSE <<>>) \o transcript

InterimOnlyStep ==
    /\ nResults' = nResults + 1
    /\ isAISpeaking
    /\ \E ev \in PlayEvents :
          /\ Transcript(ev, TRUE) = <<>>
          /\ Becomes(onresult(Delivered(ev), ev))

C15_BargeIn ==
    /\ [][BargeInStep =>
            (/\ frontendAudioQueue' = <<>>
             /\ ~isAISpeaking' /\ ~isPlayingAudio'
             /\ currentText' = Appended(currentText, <<"a">>)
             /\ silenceTimer' = PendingTimer(SILENCE_TIMEOUT_MS))]_vars
    /\ [][(interrupted /\ interrupted') => started' = started]_vars
    /\ [][InterimOnlyStep => UNCHANGED PageVars]_vars

\* C16: from a state where currentText holds speech and no sendMessage is
\* waiting for its response, a state follows where sendMessage has issued
\* a request with the text and waits for the response, unless a further
\* result event is delivered or the user clicks Stop.  (currentText
\* changes in between only by such an event or after such a click.)
Requested ==
    /\ inflight > 0
    /\ chatLog[Len(chatLog)].message = Trim(currentText)

C16_EventualSend ==
    \A k \in 0..MaxLiveResults :
        (/\ Trim(currentText) # <<>>
         /\ inflight = 0
         /\ ~userStopped
         /\ nResults = k)
          ~> (Requested \/ nResults > k \/ userStopped)

\* C17: every event of SpecSend is one final transcript "a" that
\* handleSpeech accepts, so nResults transcripts have been accepted.  The
\* bodies of the /chat requests never hold more transcripts than were
\* accepted (none is sent twice), and they hold all of them once nothing is
\* left to send: no text, no silence timer, no request waiting.
RECURSIVE TranscriptsIn(_)
TranscriptsIn(log) ==
    IF log = <<>> THEN 0
    ELSE Cardinality({i \in 1..Len(Head(log).message) :
                         Head(log).message[i] = "a"})
         + TranscriptsIn(Tail(log))

NothingLeftToSend ==
    /\ currentText = <<>>
    /\ silenceTimer.st # "pending"
    /\ orphanTimers = <<>>
    /\ inflight = 0

C17_SentExactlyOnce ==
    /\ TranscriptsIn(chatLog) <= nResults
    /\ NothingLeftToSend => TranscriptsIn(chatLog) = nResults

\* C18: a run of sendMessage (the callback of a silence timer) that finds
\* currentText empty or white space only issues no /chat request, opens
\* and closes no stream, and leaves status, currentText, messageBubble,
\* aiMessageBubble and currentSessionId as they are.
SendMessageStep ==
    \/ silenceTimer = PendingTimer(0) /\ silenceTimer' = FiredTimer
    \/ Len(orphanTimers') < Len(orphanTimers)

C18_GuardedSendIsNoOp ==
    [][(SendMessageStep /\ Trim(currentText) = <<>>) =>
         UNCHANGED <<chatLog, inflight, eventSource, openStreams, status,
                     currentText, messageBubble, aiMessageBubble,
                     currentSessionId>>]_vars

\* the AI bubble of an earlier answer is shown, a stream is open, and the
\* silence timer has fired on an empty text: no request has followed the
\* one that was answered
C18_Witness ==
    /\ silenceTimer = FiredTimer
    /\ currentText = <<>> /\ messageBubble # <<>>
    /\ inflight = 0 /\ Len(chatLog) = 1
    /\ aiMessageBubble = "bubble" /\ eventSource # "null"

\* C19: when the /chat request of a waiting sendMessage rejects or returns
\* a status that is not ok, the status becomes 'Error', the stream that was
\* open is closed and eventSource is null, currentSessionId is unchanged,
\* and currentText, messageBubble and silenceTimer (with the timers left
\* pending) end as an ok response would leave them: empty, null, null.
FailureStep ==
    /\ inflight' = inflight - 1
    /\ \E resp \in Failures : Becomes(sendMessageResponse(Cur, resp))

ResetAsAfterOk ==
    \A resp \in Failures, ok \in SessionResponses \ Failures :
        LET f == sendMessageResponse(Cur, resp)
            o == sendMessageResponse(Cur, ok)
        IN  /\ f.currentText = o.currentText
            /\ f.messageBubble = o.messageBubble
            /\ f.silenceTimer = o.silenceTimer
            /\ f.orphanTimers = o.orphanTimers

C19_FailureHandling ==
    [][FailureStep =>
         (/\ status' = "Error"
          /\ eventSource' = "null"
          /\ openStreams' = openStreams - (IF eventSource # "null" THEN 1 ELSE 0)
          /\ currentSessionId' = currentSessionId
          /\ currentText' = <<>>
          /\ messageBubble' = <<>>
          /\ silenceTimer' = NullTimer
          /\ ResetAsAfterOk)]_vars

\* the second request has failed after the first was given a session id,
\* while the timer of speech accepted during the wait is still pending
C19_Witness ==
    /\ status = "Error"
    /\ currentSessionId = "s1"
    /\ eventSource = "null" /\ openStreams = 0
    /\ Len(chatLog) = 2 /\ inflight = 0
    /\ currentText = <<>>
    /\ orphanTimers # <<>>

\* C20: when the /chat request of a waiting sendMessage returns an ok
\* response, the status becomes 'Ready' and the stream stays as it is,
\* open; and when the response carries audio chunks and TTS is on, a chunk
\* begins playback or is queued.
OkStep ==
    /\ inflight' = inflight - 1
    /\ \E resp \in Responses \ Failures :
          Becomes(sendMessageResponse(Cur, resp))

OkAudioStep ==
    /\ inflight' = inflight - 1
    /\ ttsEnabled
    /\ \E resp \in Responses \ Failures :
          /\ resp.audio_chunks > 0
          /\ Becomes(sendMessageResponse(Cur, resp))

C20_SuccessHandling ==
    /\ [][OkStep =>
            (/\ status' = "Ready"
             /\ eventSource' = eventSource
             /\ openStreams' = openStreams)]_vars
    /\ [][OkAudioStep =>
            (started' # started \/ frontendAudioQueue' # frontendAudioQueue)]_vars

\* C21: at most one EventSource is open; the open one is the one
\* eventSource refers to, so that opening a stream has closed the stream
\* before it; and handleSSEMessage handles a message only while the stream
\* eventSource refers to is open.
MessageHandledStep ==
    aiMessageBubble' # aiMessageBubble /\ aiMessageBubble' = "bubble"

C21_SingleStream ==
    /\ [](openStreams <= 1)
    /\ [](openStreams = IF eventSource = "null" THEN 0 ELSE 1)
    /\ [](eventSource # "closed")
    /\ [][MessageHandledStep => (eventSource # "null" /\ openStreams = 1)]_vars

\* two sendMessage calls wait, each has opened a stream, the response with
\* a session id has restarted it, and a text message has been handled since
C21_Witness ==
    /\ Len(chatLog) = 3 /\ inflight = 2
    /\ eventSource = "s1" /\ openStreams = 1
    /\ aiMessageBubble = "bubble"

\* C22: a speech session starts only when a frame above SILENCE_THRESHOLD
\* was processed within the SPEECH_DEBOUNCE_MS before the start: the audio
\* is still speech when the debounce delay expires, and one frame of
\* speech followed by silence starts no session.
SessionStartStep == ~isSpeechActive /\ isSpeechActive'

C22_SustainedSpeech ==
    [][SessionStartStep => sinceSpeech < SPEECH_DEBOUNCE_MS]_vars

=============================================================================
